---- MODULE Spec2Model ----
(***************************************************************************)
(* schematic-kafka: FunctionCacher (memoizing wrapper), the wire codec     *)
(* (kafkaEncode / kafkaDecode), SchemaRegistryClient.request and the       *)
(* KafkaRegistryHelper built on them.                                      *)
(*                                                                         *)
(* SpecCacher exercises FunctionCacher with generic wrapped functions;     *)
(* Spec exercises KafkaRegistryHelper against a registry, SpecLive adds    *)
(* fairness of the responses and continuations, SpecInfo exercises decode  *)
(* and decodeWithSubjectAndVersionInformation, SpecPure the pure functions.*)
(***************************************************************************)
EXTENDS Integers, Sequences, FiniteSets, TLC

VARIABLES
  cache,      \* FunctionCacher.cache: Record<string, any>
  promises,   \* the promises the wrapper has returned, by creation order
  calls,      \* SpecCacher: log of the calls made to wrappers
  invs,       \* SpecCacher: log of the invocations of wrapped functions
  lastOk,     \* history: per key, the result of a call that completed
              \* successfully, with no clear() of the key by the user since
              \* that call was made
  failedKeys, \* history: keys for which a call has failed (the failure has
              \* left the wrapper), with no call for the key since
  schemaHandlers, \* KafkaRegistryHelper.schemaHandlers: Map<SchemaType, factory>
  registry,   \* the schema registry: the registered versions, oldest first
  nextId,     \* the schema registry: the identifier it assigns next
  requests,   \* the requests SchemaRegistryClient.request has sent
  ops,        \* the helper operations called so far (encodeForSubject,
              \* encodeForId, decode), each with its position and history
  applied     \* SpecPure: one application of a pure function, with its
              \* arguments and, once applied, its result

cacherVars == <<cache, promises, calls, invs, lastOk, failedKeys>>
helperVars == <<schemaHandlers, registry, nextId, requests, ops>>
vars == <<cache, promises, calls, invs, lastOk, failedKeys,
          schemaHandlers, registry, nextId, requests, ops, applied>>

(***************************************************************************)
(* Bounds                                                                  *)
(***************************************************************************)
MaxCalls == 3
MaxOps == 2
MaxVersions == 2

(***************************************************************************)
(* JavaScript values, as far as the cacher looks at them                   *)
(***************************************************************************)
Undefined == [t |-> "undefined"]
None == [t |-> "none"]               \* history marker, not a JS value
Threw == [t |-> "threw"]             \* the call threw synchronously
Num(n) == [t |-> "number", n |-> n]
Str(s) == [t |-> "string", s |-> s]
Obj(j) == [t |-> "object", json |-> j]
PromiseRef(p) == [t |-> "promise", p |-> p]
Fresh(i) == [t |-> "object", inv |-> i]   \* the object invocation i returned

\* JS ToBoolean, used by `if (this.cache[cacheKey])` and `if (key)`
Truthy(v) ==
  CASE v.t = "undefined" -> FALSE
    [] v.t = "number" -> v.n # 0
    [] v.t = "string" -> v.s # ""
    [] OTHER -> TRUE

(***************************************************************************)
(* function-cacher: hash and the cache key                                 *)
(***************************************************************************)
\* JSON.stringify of an argument that is not a string or a number
JSONstringify(v) == IF v.t = "undefined" THEN Undefined ELSE Str(v.json)

\* createHash("sha1").update(JSON.stringify(obj)).digest("hex"); the digest
\* is taken to be collision free; update(undefined) throws a TypeError
hash(v) ==
  IF JSONstringify(v).t = "undefined" THEN Threw
  ELSE Str("sha1(" \o JSONstringify(v).s \o ")")

\* args[index], undefined past the end of the argument list
ArgAt(args, i) == IF i <= Len(args) THEN args[i] ELSE Undefined

\* one element of cacheKeySegments
KeySegment(arg) ==
  CASE arg.t = "string" -> Str(arg.s)
    [] arg.t = "number" -> Str(ToString(arg.n))
    [] OTHER -> hash(arg)

RECURSIVE Join(_, _)
\* Array.prototype.join(sep) on a sequence of strings
Join(segs, sep) ==
  IF Len(segs) = 0 THEN ""
  ELSE IF Len(segs) = 1 THEN segs[1]
  ELSE segs[1] \o sep \o Join(Tail(segs), sep)

\* the cache key of a call, or Threw when a segment cannot be hashed.  The
\* map runs over useArgumentForCache but never reads its entries.
cacheKey(name, mask, args) ==
  LET segs == [i \in 1..Len(mask) |-> KeySegment(ArgAt(args, i))]
  IN IF \E i \in 1..Len(mask) : segs[i].t = "threw" THEN Threw
     ELSE Str(name \o "__" \o Join([i \in 1..Len(mask) |-> segs[i].s], "__"))

(***************************************************************************)
(* function-cacher: the cache                                              *)
(***************************************************************************)
\* this.cache[key]
cacheGet(c, k) == IF k \in DOMAIN c THEN c[k] ELSE Undefined

\* a wrapper that serves only completed results from the cache
cacheHitCompletedOnly(c, k) ==
  /\ Truthy(cacheGet(c, k))
  /\ cacheGet(c, k).t = "promise" => promises[cacheGet(c, k).p].st = "fulfilled"

\* a wrapper that never finds its entry
cacheHitNever(c, k) == FALSE

\* `if (this.cache[cacheKey]) return this.cache[cacheKey]`
cacheHit(c, k) == Truthy(cacheGet(c, k))

\* a wrapper that stores every result
cachePutAnything(c, k, result) == (k :> result) @@ c

\* `if (result !== undefined) this.cache[cacheKey] = result`
cachePut(c, k, result) ==
  IF result # Undefined THEN (k :> result) @@ c ELSE c

\* delete this.cache[key]
cacheDelete(c, k) == [x \in (DOMAIN c) \ {k} |-> c[x]]

\* a clear that drops the whole cache whatever the key
clearEverything(c, key) == << >>

\* FunctionCacher.clear(key?): key is a string or Undefined
clear(c, key) == IF Truthy(key) THEN cacheDelete(c, key.s) ELSE << >>

\* a catch handler that rethrows without evicting
evictNothing(c, k) == c

\* the catch handler the wrapper chains on a returned promise
evict(c, k) == clear(c, Str(k))

(***************************************************************************)
(* Promises returned by the wrapper.  A promise is the one `.catch` made:  *)
(* "rejecting" is the wrapped function's promise rejected with the catch   *)
(* handler still queued, "rejected" is after the handler has run.          *)
(***************************************************************************)
\* `cut` is history: the user cleared the promise's key while it was unsettled
newPromise(k) == [key |-> k, st |-> "pending", cut |-> FALSE, val |-> None]
\* a rejection that never reaches the callers awaiting the promise
SettledIfFulfilled(p) == promises[p].st = "fulfilled"

Settled(p) == promises[p].st \in {"fulfilled", "rejected"}

(***************************************************************************)
(* SpecCacher: generic wrapped functions                                   *)
(***************************************************************************)
Fns ==
  { [name |-> "f", mask |-> <<TRUE>>, async |-> TRUE],
    [name |-> "g", mask |-> <<TRUE>>, async |-> FALSE] }

ArgLists == { <<Str("a")>>, <<Str("b")>> }

\* what a synchronous wrapped function may return on invocation i
SyncResults(i) == { Undefined, Num(0), Fresh(i) }

InitCacher ==
  /\ cache = << >>
  /\ promises = << >>
  /\ calls = << >>
  /\ invs = << >>
  /\ lastOk = << >>
  /\ failedKeys = {}
  /\ schemaHandlers = << >>
  /\ registry = << >>
  /\ nextId = 0
  /\ requests = << >>
  /\ ops = << >>
  /\ applied = None

\* the record of one call of a wrapper
CallRec(f, k, invoked, ret) ==
  [ fn |-> f.name, key |-> k, invoked |-> invoked, ret |-> ret, seen |-> "none",
    prior |-> IF k \in DOMAIN lastOk THEN lastOk[k] ELSE None,
    afterFailure |-> k \in failedKeys,
    joined |-> cacheGet(cache, k).t = "promise"
               /\ ~Settled(cacheGet(cache, k).p),
    concurrent |-> \E c \in DOMAIN calls :
                     /\ calls[c].key = k
                     /\ calls[c].ret.t = "promise"
                     /\ ~Settled(calls[c].ret.p) ]

\* wrapper(...args): served from the cache
CallHit(f, args) ==
  LET k == cacheKey(f.name, f.mask, args) IN
  /\ Len(calls) < MaxCalls
  /\ k.t = "string"
  /\ cacheHit(cache, k.s)
  /\ calls' = Append(calls, CallRec(f, k.s, FALSE, cacheGet(cache, k.s)))
  /\ failedKeys' = failedKeys \ {k.s}
  /\ UNCHANGED <<cache, promises, invs, lastOk>>

\* wrapper(...args): an asynchronous function is invoked, its promise stored
CallAsync(f, args) ==
  LET k == cacheKey(f.name, f.mask, args)
      p == Len(promises) + 1 IN
  /\ Len(calls) < MaxCalls
  /\ f.async
  /\ k.t = "string"
  /\ ~cacheHit(cache, k.s)
  /\ invs' = Append(invs, [fn |-> f.name, args |-> args])
  /\ promises' = Append(promises, newPromise(k.s))
  /\ cache' = cachePut(cache, k.s, PromiseRef(p))
  /\ calls' = Append(calls, CallRec(f, k.s, TRUE, PromiseRef(p)))
  /\ failedKeys' = failedKeys \ {k.s}
  /\ UNCHANGED lastOk

\* wrapper(...args): a synchronous function is invoked and returns
CallSync(f, args) ==
  LET k == cacheKey(f.name, f.mask, args)
      i == Len(invs) + 1 IN
  /\ Len(calls) < MaxCalls
  /\ ~f.async
  /\ k.t = "string"
  /\ ~cacheHit(cache, k.s)
  /\ invs' = Append(invs, [fn |-> f.name, args |-> args])
  /\ \E r \in SyncResults(i) :
       /\ cache' = cachePut(cache, k.s, r)
       /\ calls' = Append(calls, [CallRec(f, k.s, TRUE, r) EXCEPT !.seen = "ok"])
       /\ lastOk' = (k.s :> r) @@ lastOk
  /\ failedKeys' = failedKeys \ {k.s}
  /\ UNCHANGED promises

\* wrapper(...args): a synchronous function is invoked and throws
CallThrow(f, args) ==
  LET k == cacheKey(f.name, f.mask, args) IN
  /\ Len(calls) < MaxCalls
  /\ ~f.async
  /\ k.t = "string"
  /\ ~cacheHit(cache, k.s)
  /\ invs' = Append(invs, [fn |-> f.name, args |-> args])
  /\ calls' = Append(calls, [CallRec(f, k.s, TRUE, Threw) EXCEPT !.seen = "fail"])
  /\ failedKeys' = failedKeys \cup {k.s}
  /\ UNCHANGED <<cache, promises, lastOk>>

\* the wrapped function's promise is fulfilled: so is the wrapper's
SettleOk(p) ==
  /\ promises[p].st = "pending"
  /\ promises' = [promises EXCEPT ![p].st = "fulfilled"]
  /\ lastOk' = IF promises[p].cut THEN lastOk
               ELSE (promises[p].key :> PromiseRef(p)) @@ lastOk
  /\ UNCHANGED <<cache, calls, invs, failedKeys>>

\* the wrapped function's promise is rejected; the catch handler is queued
SettleFail(p) ==
  /\ promises[p].st = "pending"
  /\ promises' = [promises EXCEPT ![p].st = "rejecting"]
  /\ UNCHANGED <<cache, calls, invs, lastOk, failedKeys>>

\* the catch handler: this.clear(cacheKey); throw reason
RunCatch(p) ==
  /\ promises[p].st = "rejecting"
  /\ cache' = evict(cache, promises[p].key)
  /\ promises' = [promises EXCEPT ![p].st = "rejected"]
  /\ failedKeys' = failedKeys \cup {promises[p].key}
  /\ UNCHANGED <<calls, invs, lastOk>>

\* the caller's continuation on the promise it was handed
Observe(c) ==
  /\ calls[c].seen = "none"
  /\ calls[c].ret.t = "promise"
  /\ Settled(calls[c].ret.p)
  /\ calls' = [calls EXCEPT ![c].seen =
                  IF promises[calls[c].ret.p].st = "fulfilled" THEN "ok" ELSE "fail"]
  /\ UNCHANGED <<cache, promises, invs, lastOk, failedKeys>>

\* cacher.clear(key) by the user
ClearKey(k) ==
  /\ cache' = clear(cache, Str(k))
  /\ lastOk' = [x \in (DOMAIN lastOk) \ {k} |-> lastOk[x]]
  /\ promises' = [p \in DOMAIN promises |->
                    IF promises[p].key = k /\ ~Settled(p)
                    THEN [promises[p] EXCEPT !.cut = TRUE] ELSE promises[p]]
  /\ UNCHANGED <<calls, invs, failedKeys>>

\* cacher.clear() by the user
ClearAll ==
  /\ cache # << >>
  /\ cache' = clear(cache, Undefined)
  /\ lastOk' = << >>
  /\ promises' = [p \in DOMAIN promises |->
                    IF ~Settled(p)
                    THEN [promises[p] EXCEPT !.cut = TRUE] ELSE promises[p]]
  /\ UNCHANGED <<calls, invs, failedKeys>>

NextCacher ==
  /\ UNCHANGED <<helperVars, applied>>
  /\ \/ \E f \in Fns, args \in ArgLists : CallHit(f, args)
     \/ \E f \in Fns, args \in ArgLists : CallAsync(f, args)
     \/ \E f \in Fns, args \in ArgLists : CallSync(f, args)
     \/ \E f \in Fns, args \in ArgLists : CallThrow(f, args)
     \/ \E p \in DOMAIN promises : SettleOk(p)
     \/ \E p \in DOMAIN promises : SettleFail(p)
     \/ \E p \in DOMAIN promises : RunCatch(p)
     \/ \E c \in DOMAIN calls : Observe(c)
     \/ \E k \in DOMAIN cache : ClearKey(k)
     \/ ClearAll

SpecCacher == InitCacher /\ [][NextCacher]_vars

(***************************************************************************)
(* kafka-helper: the wire codec.  A Buffer is a sequence of bytes.         *)
(***************************************************************************)
Bytes(b) == [t |-> "buffer", bytes |-> b]
RangeError == [t |-> "error", name |-> "RangeError"]

\* a write that keeps only the low 16 bits of the value
writeUInt16In32(n) == << 0, 0, (n \div 256) % 256, n % 256 >>

\* Buffer.writeUInt32BE(value): the four bytes, most significant first
writeUInt32BE(n) ==
  << (n \div 16777216) % 256, (n \div 65536) % 256, (n \div 256) % 256, n % 256 >>

\* Buffer.readUInt32BE(1) of a buffer of at least five bytes
readUInt32BE(b) == b[2] * 16777216 + b[3] * 65536 + b[4] * 256 + b[5]

\* kafkaEncode(schemaId, encodedMessage): marker 0, identifier, payload
\* the handler's bytes returned without the preamble
kafkaEncodeUnframed(schemaId, encodedMessage) == encodedMessage

\* an encoder that frames an empty payload for what is not a Buffer
kafkaEncodeLenient(schemaId, encodedMessage) ==
  IF encodedMessage.t # "buffer" THEN Bytes(<<0>> \o writeUInt32BE(schemaId))
  ELSE Bytes(<<0>> \o writeUInt32BE(schemaId) \o encodedMessage.bytes)

kafkaEncode(schemaId, encodedMessage) ==
  IF encodedMessage.t # "buffer"
  THEN [t |-> "error", name |-> "Error", message |-> "encoded message must be of type Buffer"]
  ELSE Bytes(<<0>> \o writeUInt32BE(schemaId) \o encodedMessage.bytes)

\* a decoder that does not look at the marker byte
kafkaDecodeAlwaysFramed(raw) ==
  IF Len(raw) < 5 THEN RangeError
  ELSE [t |-> "decoded", schemaId |-> Num(readUInt32BE(raw)),
        payload |-> SubSeq(raw, 6, Len(raw))]

\* kafkaDecode(rawMessage): readUInt8(0) and readUInt32BE(1) throw a
\* RangeError on a buffer that is too short
kafkaDecode(raw) ==
  IF Len(raw) = 0 THEN RangeError
  ELSE IF raw[1] # 0 THEN [t |-> "decoded", schemaId |-> Undefined, payload |-> raw]
  ELSE IF Len(raw) < 5 THEN RangeError
  ELSE [t |-> "decoded", schemaId |-> Num(readUInt32BE(raw)),
        payload |-> SubSeq(raw, 6, Len(raw))]

(***************************************************************************)
(* schema-registry-client: request and the client methods                  *)
(***************************************************************************)
AVRO == "AVRO"
SchemaTypes == {"AVRO", "PROTOBUF", "JSON"}

\* errors; `req` is the request the error object was created for
SchemaRegistryError(code, r) ==
  [t |-> "error", name |-> "SchemaRegistryError", errorCode |-> code, req |-> r]
\* an empty error body reported as a registry error
InvalidResponseTyped(r) == SchemaRegistryError(0, r)

InvalidResponse(r) ==
  [t |-> "error", name |-> "Error", message |-> "Invalid schema registry response", req |-> r]
SyntaxError(r) == [t |-> "error", name |-> "SyntaxError", req |-> r]
\* a transport error reported as the registry's not-found
NetworkErrorAsNotFound(r) == SchemaRegistryError(404, r)

NetworkError(r) == [t |-> "error", name |-> "ECONNREFUSED", req |-> r]

Resolved(v) == [ok |-> TRUE, val |-> v]
Rejected(e) == [ok |-> FALSE, val |-> e]

\* no squashing of the not-found codes
squashNothing(code) == code

\* `if ([404, 40401, 40403].includes(error_code)) error_code = 404`
squash(code) == IF code \in {404, 40401, 40403} THEN 404 ELSE code

\* SchemaRegistryClient.request: what its promise settles to for a response
request(r, resp) ==
  IF resp.kind = "neterr" THEN Rejected(NetworkError(r))
  ELSE IF resp.status = 200 THEN Resolved(resp.body)
  ELSE IF resp.body.form = "json"
    THEN IF "error_code" \in DOMAIN resp.body.value
         THEN Rejected(SchemaRegistryError(squash(resp.body.value.error_code), r))
         ELSE Rejected(SchemaRegistryError(Undefined, r))
  ELSE IF resp.body.form = "text" THEN Rejected(SyntaxError(r))
  ELSE Rejected(InvalidResponse(r))

\* a client method: JSON.parse(await this.request(requestOptions, body))
clientMethod(r, resp) ==
  LET got == request(r, resp) IN
  IF ~got.ok THEN got
  ELSE IF got.val.form = "json" THEN Resolved(got.val.value)
  ELSE Rejected(SyntaxError(r))

\* a catch block that registers after any failure of checkSchema
IsAnyFailure(e) == TRUE

\* a catch block that registers after any error the registry reported
IsRegistryError(e) == e.name = "SchemaRegistryError"

\* `e instanceof SchemaRegistryError && e.errorCode === 404`
IsNotFound(e) == e.name = "SchemaRegistryError" /\ e.errorCode = 404

(***************************************************************************)
(* The schema registry the client talks to                                 *)
(***************************************************************************)
Subjects == {"s1"}
SchemaTexts == {"A", "B"}

JsonBody(v) == [form |-> "json", value |-> v]
TextBody == [form |-> "text"]
EmptyBody == [form |-> "empty"]
Http(status, body) == [kind |-> "http", status |-> status, body |-> body]

\* responses any request may get instead of the registry's proper answer:
\* another registry error code, an empty body, a body that is not JSON, a
\* transport error
Faults ==
  { Http(500, JsonBody([error_code |-> 50001])), Http(500, EmptyBody),
    Http(500, TextBody), [kind |-> "neterr"] }

NotFoundCodes == {404, 40401, 40403}
NotFound == { Http(404, JsonBody([error_code |-> c])) : c \in NotFoundCodes }

Versions(subject) == { i \in DOMAIN registry : registry[i].subject = subject }
Matching(subject, schema, type) ==
  { i \in Versions(subject) :
      registry[i].schema = schema /\ registry[i].schemaType = type }
WithId(id) == { i \in DOMAIN registry : registry[i].id = id }
Max(S) == CHOOSE x \in S : \A y \in S : y <= x

\* the schema type the registry has recorded for an identifier
RecordedType(id) == registry[CHOOSE i \in WithId(id) : TRUE].schemaType

\* the body of a successful answer about version i; the registry may leave
\* schemaType out for an AVRO schema
SchemaBodies(i) ==
  { [id |-> registry[i].id, schema |-> Str(registry[i].schema),
     schemaType |-> Str(registry[i].schemaType)] }
  \cup
  IF registry[i].schemaType = AVRO
  THEN { [id |-> registry[i].id, schema |-> Str(registry[i].schema),
          schemaType |-> Undefined] }
  ELSE {}

\* the registry's proper answers to a lookup request (no change of state)
LookupAnswers(rq) ==
  LET found ==
        CASE rq.kind = "checkSchema" ->
               Matching(rq.subject, rq.schema, rq.schemaType)
          [] rq.kind = "getLatestVersionForSubject" ->
               IF Versions(rq.subject) = {} THEN {} ELSE {Max(Versions(rq.subject))}
          [] rq.kind = "getSchemaById" -> WithId(rq.id)
          [] OTHER -> {}
  IN IF found = {} THEN NotFound
     ELSE { Http(200, JsonBody(b)) : b \in SchemaBodies(Max(found)) }

\* the version number of entry i within its subject
VersionOf(i) ==
  Cardinality({ j \in Versions(registry[i].subject) : j <= i })

\* GET /schemas/ids/{id}/versions: the { subject, version } pairs of the
\* identifier
VersionPairs(id) ==
  LET S == WithId(id)
      nth(k) == CHOOSE i \in S : Cardinality({ j \in S : j <= i }) = k
  IN [k \in 1..Cardinality(S) |->
        [subject |-> registry[nth(k)].subject, version |-> VersionOf(nth(k))]]

\* the registry's proper answers to listVersionsForId
VersionsAnswers(rq) ==
  IF WithId(rq.id) = {} THEN NotFound
  ELSE { Http(200, JsonBody(VersionPairs(rq.id))) }

\* a registry that gives every registration request a new identifier
IdForAlwaysNew(schema, type) == nextId

\* the identifier a registration of (schema, type) gets
IdFor(schema, type) ==
  LET same == { i \in DOMAIN registry :
                  registry[i].schema = schema /\ registry[i].schemaType = type }
  IN IF same = {} THEN nextId ELSE registry[CHOOSE i \in same : TRUE].id

\* the registry after a registration: idempotent for a version it has
Registered(subject, schema, type) ==
  IF Matching(subject, schema, type) # {} THEN registry
  ELSE Append(registry, [subject |-> subject, schema |-> schema,
                         schemaType |-> type, id |-> IdFor(schema, type)])

\* the bodies of a successful registration: the identifier alone, or with
\* the request echoed
RegisterBodies(rq) ==
  { [id |-> IdFor(rq.schema, rq.schemaType), schema |-> Undefined,
     schemaType |-> Undefined],
    [id |-> IdFor(rq.schema, rq.schemaType), schema |-> Str(rq.schema),
     schemaType |-> Str(rq.schemaType)] }

(***************************************************************************)
(* CachedSchemaRegistryClient: the three cached methods and registerSchema *)
(***************************************************************************)
\* JSON.stringify({ schemaType, schema, references }) with references
\* undefined
SchemaJson(type, schema) ==
  "{\"schemaType\":\"" \o type \o "\",\"schema\":\"" \o schema \o "\"}"

\* the cache keys of the cached methods
checkSchemaKey(subject, type, schema) ==
  cacheKey("checkSchema", <<TRUE, TRUE>>,
           <<Str(subject), Obj(SchemaJson(type, schema))>>).s
getLatestVersionForSubjectKey(subject) ==
  cacheKey("getLatestVersionForSubject", <<TRUE>>, <<Str(subject)>>).s
getSchemaByIdKey(id) == cacheKey("getSchemaById", <<TRUE>>, <<Num(id)>>).s

\* one HTTP request of the client; net is history: it ended with a
\* network-level failure
Request(kind, subject, type, schema, id, p, o) ==
  [kind |-> kind, subject |-> subject, schemaType |-> type, schema |-> schema,
   id |-> id, promise |-> p, op |-> o, st |-> "pending", net |-> FALSE]

\* the client methods the helper calls without the cacher
Uncached == {"registerSchema", "listVersionsForId"}

\* a cached method is called with key k: a cache hit sends nothing, a miss
\* calls the client method, which sends rq, and stores its promise
CallCached(k, rq) ==
  IF cacheHit(cache, k)
  THEN UNCHANGED <<cache, promises, requests>>
  ELSE /\ promises' = Append(promises, newPromise(k))
       /\ cache' = cachePut(cache, k, PromiseRef(Len(promises) + 1))
       /\ requests' = Append(requests, rq)

\* the promise the caller of a cached method gets
Awaited(k) ==
  IF cacheHit(cache, k) THEN cacheGet(cache, k).p ELSE Len(promises) + 1

\* the requests the call sent
Sent(k, kind) == IF cacheHit(cache, k) THEN << >> ELSE <<kind>>

(***************************************************************************)
(* KafkaRegistryHelper                                                     *)
(***************************************************************************)
HandledTypes == {"AVRO", "PROTOBUF"}

NoHandlerError(type) ==
  [t |-> "error", name |-> "Error",
   message |-> "No protocol handler for protocol " \o type]
MismatchError ==
  [t |-> "error", name |-> "Error",
   message |-> "Mismatch between schemaType argument and schema registry schemaType"]
\* `this.schemaHandlers.get(type)(schema)` with no handler for the type
NotAFunction == [t |-> "error", name |-> "TypeError"]

\* what the handler a factory makes for a schema does
HandlerEncode(type, schema) == Bytes(<<IF type = AVRO THEN 65 ELSE 80>>)
HandlerDecode(type, schema, payload) ==
  [t |-> "message", by |-> type, schema |-> schema, payload |-> payload]

\* the factories a caller may register: two that work, whose handlers give
\* different results, and one whose handler fails (the factory throws, or
\* the handler's encode / decode does)
Factories == {"factory", "factory2", "throwing"}
HandlerError == [t |-> "error", name |-> "HandlerError"]

\* this.schemaHandlers.get(type)(schema).encode(message) with factory f
FactoryEncode(f, type, schema) ==
  CASE f = "factory" -> HandlerEncode(type, schema)
    [] f = "factory2" -> Bytes(<<HandlerEncode(type, schema).bytes[1] + 1>>)
    [] OTHER -> HandlerError

\* this.schemaHandlers.get(type)(schema).decode(payload) with factory f
FactoryDecode(f, type, schema, payload) ==
  CASE f = "factory" -> HandlerDecode(type, schema, payload)
    [] f = "factory2" -> [HandlerDecode(type, schema, payload) EXCEPT !.by = type \o "/2"]
    [] OTHER -> HandlerError

\* a ?? b
orElse(a, b) == IF a.t = "undefined" THEN b ELSE a

Finished(o) == ops[o].pc \in {"done", "failed"}

\* the promise operation o awaits has settled: its continuation is queued
Runnable(o) ==
  /\ ops[o].pc \in {"check", "register", "latest", "byId", "byIdInfo", "versions"}
  /\ Settled(ops[o].wait)

\* the continuation of o is the first in the microtask queue (continuations
\* run in the order the operations were called; continuations of different
\* operations commute)
FirstRunnable(o) == Runnable(o) /\ \A q \in 1..(o - 1) : ~Runnable(q)

\* the microtask queue is empty: the next task (a response) can run
Quiet == \A o \in DOMAIN ops : ~Runnable(o)

\* the record of one operation of the helper.  hadHandler, before, sent,
\* checked (the promise checkSchema returned), resolved and recorded are
\* history; fetched is the promise getSchemaById returned, kept while
\* listVersionsForId is awaited.
NewOp(kind, subject, tag, schema, id, buf) ==
  [kind |-> kind, subject |-> subject, tag |-> tag, schema |-> schema,
   id |-> id, buf |-> buf, pc |-> "start", wait |-> 0, out |-> None,
   hadHandler |-> tag \in DOMAIN schemaHandlers,
   before |-> { o \in DOMAIN ops : Finished(o) },
   sent |-> << >>, checked |-> 0, resolved |-> None, recorded |-> None,
   factory |-> << >>, fetched |-> 0]

\* an encode function without the handler check at its entry
handlerNotChecked(tag) == FALSE

\* `if (!this.schemaHandlers.get(schemaType))`
handlerMissing(tag) == tag \notin DOMAIN schemaHandlers

\* a rejection that loses the error it was caused by
FailAnonymous(op, e) == [op EXCEPT !.pc = "failed", !.out = NotAFunction]

\* a failed registration handled by going back to the schema check
FailRetrying(op, e) ==
  IF op.pc = "register" THEN [op EXCEPT !.pc = "check", !.wait = op.checked]
  ELSE [op EXCEPT !.pc = "failed", !.out = e]

\* the operation rejects with e
Fail(op, e) == [op EXCEPT !.pc = "failed", !.out = e]

\* an encodeMessage that hands whatever the handler gave, its failure
\* included, to kafkaEncode
encodeMessageFramingAnything(op, id, type, schema) ==
  IF type \notin DOMAIN schemaHandlers THEN Fail(op, NotAFunction)
  ELSE LET framed == kafkaEncode(id, FactoryEncode(schemaHandlers[type], type, schema)) IN
       [op EXCEPT !.factory = Append(@, [type |-> type, schema |-> schema]),
                  !.pc = IF framed.t = "buffer" THEN "done" ELSE "failed",
                  !.out = framed]

\* encodeMessage(schemaId, message, schemaType, schema)
encodeMessage(op, id, type, schema) ==
  IF type \notin DOMAIN schemaHandlers THEN Fail(op, NotAFunction)
  ELSE LET encodedMessage == FactoryEncode(schemaHandlers[type], type, schema)
           called == [op EXCEPT !.factory = Append(@, [type |-> type, schema |-> schema])]
       IN IF encodedMessage.t = "error" THEN Fail(called, encodedMessage)
          ELSE LET framed == kafkaEncode(id, encodedMessage) IN
               [called EXCEPT !.pc = IF framed.t = "buffer" THEN "done" ELSE "failed",
                              !.out = framed]

\* an encode that makes the handler before it compares the schema types
encodeTailEager(op, res) ==
  LET registrySchemaType == orElse(res.schemaType, Str(AVRO))
      made == [op EXCEPT !.resolved = res,
                         !.factory = Append(@, [type |-> registrySchemaType.s,
                                                schema |-> res.schema])]
  IN IF Str(op.tag) # registrySchemaType THEN Fail(made, MismatchError)
     ELSE encodeMessage([op EXCEPT !.resolved = res], res.id,
                        registrySchemaType.s, res.schema)

\* the end of encodeForSubject and encodeForId, from the destructuring of
\* the resolved { id, schema, schemaType }
encodeTail(op, res) ==
  LET registrySchemaType == orElse(res.schemaType, Str(AVRO))
      noted == [op EXCEPT !.resolved = res,
                          !.recorded = IF WithId(res.id) = {} THEN None
                                       ELSE Str(RecordedType(res.id))]
  IN IF Str(op.tag) # registrySchemaType THEN Fail(noted, MismatchError)
     ELSE encodeMessage(noted, res.id, registrySchemaType.s, res.schema)

\* a decode that returns the payload without calling the handler
decodeTailUndecoded(op, res) ==
  [op EXCEPT !.pc = "done", !.resolved = res,
             !.out = Bytes(kafkaDecode(op.buf).payload)]

\* the end of decode, from the destructuring of the fetched
\* { schema, schemaType }
decodeTail(op, res) ==
  LET type == orElse(res.schemaType, Str(AVRO)).s
      payload == kafkaDecode(op.buf).payload
      noted == [op EXCEPT !.resolved = res,
                          !.recorded = IF WithId(res.id) = {} THEN None
                                       ELSE Str(RecordedType(res.id))]
  IN IF type \notin DOMAIN schemaHandlers THEN Fail(noted, NotAFunction)
     ELSE LET decoded == FactoryDecode(schemaHandlers[type], type, res.schema, payload)
              called == [noted EXCEPT
                           !.factory = Append(@, [type |-> type, schema |-> res.schema])]
          IN IF decoded.t = "error" THEN Fail(called, decoded)
             ELSE [called EXCEPT !.pc = "done", !.out = decoded]

\* the return statement of makeSureSchemaIsRegistered
makeSureResult(id, registrySchema, registrySchemaType, schemaType) ==
  [id |-> id, schema |-> registrySchema,
   schemaType |-> orElse(registrySchemaType, Str(schemaType))]

\* makeSureSchemaIsRegistered from the result of checkSchema to its return
checkResult(res, schema, schemaType) ==
  makeSureResult(res.id, orElse(res.schema, schema), res.schemaType, schemaType)

\* a registration result taken as the registry answered it
registerResultAsAnswered(res, schema, schemaType) ==
  [id |-> res.id, schema |-> res.schema, schemaType |-> res.schemaType]

\* makeSureSchemaIsRegistered from the result of registerSchema to its
\* return
registerResult(res, schema, schemaType) ==
  makeSureResult(res.id, orElse(res.schema, schema),
                 orElse(res.schemaType, Str(schemaType)), schemaType)

(***************************************************************************)
(* Spec: KafkaRegistryHelper against a registry                            *)
(***************************************************************************)
CallerSchemas == { Undefined, Str("A") }
SchemaIds == {0, 1}
DecodeInputs ==
  { <<0, 0, 0, 0, 1, 65>>, <<0, 0, 0, 0, 0, 65>>, <<1, 2>>, <<0, 1>> }

Init == InitCacher

cacherHistory == <<calls, invs, lastOk, failedKeys>>

\* a registration that forgets the factories of the other schema types
withSchemaHandlerAlone(handlers, type, factory) == (type :> factory)

\* this.schemaHandlers.set(schemaType, schemaHandlerFactory)
withSchemaHandler(handlers, type, factory) == (type :> factory) @@ handlers

\* helper.withSchemaHandler(schemaType, factory)
WithSchemaHandler(type, factory) ==
  /\ schemaHandlers' = withSchemaHandler(schemaHandlers, type, factory)
  /\ UNCHANGED <<cache, promises, registry, nextId, requests, ops>>
  /\ UNCHANGED <<cacherHistory, applied>>

\* another client of the registry registers a version
ExternalRegister(subject, schema, type) ==
  /\ Quiet
  /\ Len(registry) < MaxVersions
  /\ Matching(subject, schema, type) = {}
  /\ registry' = Registered(subject, schema, type)
  /\ nextId' = IF IdFor(schema, type) = nextId THEN nextId + 1 ELSE nextId
  /\ UNCHANGED <<cache, promises, schemaHandlers, requests, ops>>
  /\ UNCHANGED <<cacherHistory, applied>>

\* helper.encodeForSubject(subject, message, schemaType, schema) up to its
\* first await
EncodeForSubject(subject, tag, schema) ==
  LET o == Len(ops) + 1
      op == NewOp("encodeForSubject", subject, tag, schema, 0, << >>)
      p == Len(promises) + 1
  IN
  /\ Len(ops) < MaxOps
  /\ IF handlerMissing(tag) THEN
       /\ ops' = Append(ops, Fail(op, NoHandlerError(tag)))
       /\ UNCHANGED <<cache, promises, requests>>
     ELSE IF Truthy(schema) THEN
       LET k == checkSchemaKey(subject, tag, schema.s) IN
       /\ CallCached(k, Request("checkSchema", subject, tag, schema.s, 0, p, o))
       /\ ops' = Append(ops, [op EXCEPT !.pc = "check", !.wait = Awaited(k),
                                        !.checked = Awaited(k),
                                        !.sent = Sent(k, "checkSchema")])
     ELSE
       LET k == getLatestVersionForSubjectKey(subject) IN
       /\ CallCached(k, Request("getLatestVersionForSubject", subject, "", "", 0, p, o))
       /\ ops' = Append(ops, [op EXCEPT !.pc = "latest", !.wait = Awaited(k),
                                        !.sent = Sent(k, "getLatestVersionForSubject")])
  /\ UNCHANGED <<schemaHandlers, registry, nextId>>
  /\ UNCHANGED <<cacherHistory, applied>>

\* helper.encodeForId(schemaId, message, schemaType) up to its await
EncodeForId(id, tag) ==
  LET o == Len(ops) + 1
      op == NewOp("encodeForId", "", tag, Undefined, id, << >>)
      k == getSchemaByIdKey(id)
  IN
  /\ Len(ops) < MaxOps
  /\ IF handlerMissing(tag) THEN
       /\ ops' = Append(ops, Fail(op, NoHandlerError(tag)))
       /\ UNCHANGED <<cache, promises, requests>>
     ELSE
       /\ CallCached(k, Request("getSchemaById", "", "", "", id, Len(promises) + 1, o))
       /\ ops' = Append(ops, [op EXCEPT !.pc = "byId", !.wait = Awaited(k),
                                        !.sent = Sent(k, "getSchemaById")])
  /\ UNCHANGED <<schemaHandlers, registry, nextId>>
  /\ UNCHANGED <<cacherHistory, applied>>

\* helper.decode(message) up to its await, or to its end
Decode(buf) ==
  LET o == Len(ops) + 1
      op == NewOp("decode", "", "", Undefined, 0, buf)
      d == kafkaDecode(buf)
  IN
  /\ Len(ops) < MaxOps
  /\ IF d.t = "error" THEN
       /\ ops' = Append(ops, Fail(op, d))
       /\ UNCHANGED <<cache, promises, requests>>
     ELSE IF Truthy(d.schemaId) THEN
       LET k == getSchemaByIdKey(d.schemaId.n) IN
       /\ CallCached(k, Request("getSchemaById", "", "", "", d.schemaId.n,
                                Len(promises) + 1, o))
       /\ ops' = Append(ops, [op EXCEPT !.pc = "byId", !.wait = Awaited(k),
                                        !.id = d.schemaId.n,
                                        !.sent = Sent(k, "getSchemaById")])
     ELSE
       /\ ops' = Append(ops, [op EXCEPT !.pc = "done", !.out = Bytes(d.payload)])
       /\ UNCHANGED <<cache, promises, requests>>
  /\ UNCHANGED <<schemaHandlers, registry, nextId>>
  /\ UNCHANGED <<cacherHistory, applied>>

\* the response to request r arrives: the client method's promise settles
\* and, when it is rejected, the wrapper's catch handler evicts the key
\* before anything awaiting the wrapper's promise runs
Respond(r) ==
  LET rq == requests[r]
      p == rq.promise
      proper == IF rq.kind = "registerSchema"
                THEN { Http(200, JsonBody(b)) : b \in RegisterBodies(rq) }
                ELSE IF rq.kind = "listVersionsForId" THEN VersionsAnswers(rq)
                ELSE LookupAnswers(rq)
  IN
  /\ Quiet
  /\ rq.st = "pending"
  /\ \E resp \in proper \cup Faults :
       LET got == clientMethod(r, resp) IN
       /\ promises' = [promises EXCEPT
                         ![p].st = IF got.ok THEN "fulfilled" ELSE "rejected",
                         ![p].val = got.val]
       /\ cache' = IF got.ok \/ rq.kind \in Uncached THEN cache
                   ELSE evict(cache, promises[p].key)
       /\ IF rq.kind = "registerSchema" /\ resp \in proper
          THEN /\ registry' = Registered(rq.subject, rq.schema, rq.schemaType)
               /\ nextId' = IF Matching(rq.subject, rq.schema, rq.schemaType) = {}
                               /\ IdFor(rq.schema, rq.schemaType) = nextId
                            THEN nextId + 1 ELSE nextId
          ELSE UNCHANGED <<registry, nextId>>
       /\ requests' = [requests EXCEPT ![r].st = "done",
                                       ![r].net = (resp.kind = "neterr")]
  /\ UNCHANGED <<schemaHandlers, ops>>
  /\ UNCHANGED <<cacherHistory, applied>>

\* makeSureSchemaIsRegistered after `await checkSchema(...)`, and what
\* follows it in encodeForSubject
AfterCheck(o) ==
  LET op == ops[o]
      r == promises[op.wait]
      rqn == Len(requests) + 1
      pn == Len(promises) + 1
  IN
  /\ op.pc = "check"
  /\ FirstRunnable(o)
  /\ IF r.st = "fulfilled" THEN
       /\ ops' = [ops EXCEPT ![o] =
            encodeTail(op, checkResult(r.val, op.schema, op.tag))]
       /\ UNCHANGED <<promises, requests>>
     ELSE IF IsNotFound(r.val) THEN
       /\ promises' = Append(promises, newPromise("registerSchema"))
       /\ requests' = Append(requests,
            Request("registerSchema", op.subject, op.tag, op.schema.s, 0, pn, o))
       /\ ops' = [ops EXCEPT ![o].pc = "register", ![o].wait = pn,
                             ![o].sent = Append(@, "registerSchema")]
     ELSE
       /\ ops' = [ops EXCEPT ![o] = Fail(op, r.val)]
       /\ UNCHANGED <<promises, requests>>
  /\ UNCHANGED <<cache, schemaHandlers, registry, nextId>>
  /\ UNCHANGED <<cacherHistory, applied>>

\* makeSureSchemaIsRegistered after `await registerSchema(...)`
AfterRegister(o) ==
  LET op == ops[o]
      r == promises[op.wait]
  IN
  /\ op.pc = "register"
  /\ FirstRunnable(o)
  /\ ops' = [ops EXCEPT ![o] =
       IF r.st = "fulfilled"
       THEN encodeTail(op, registerResult(r.val, op.schema, op.tag))
       ELSE Fail(op, r.val)]
  /\ UNCHANGED <<cache, promises, requests, schemaHandlers, registry, nextId>>
  /\ UNCHANGED <<cacherHistory, applied>>

\* makeSureSchemaIsRegistered after `await getLatestVersionForSubject(...)`
AfterLatest(o) ==
  LET op == ops[o]
      r == promises[op.wait]
  IN
  /\ op.pc = "latest"
  /\ FirstRunnable(o)
  /\ ops' = [ops EXCEPT ![o] =
       IF r.st = "fulfilled"
       THEN encodeTail(op, makeSureResult(r.val.id, r.val.schema,
                                          r.val.schemaType, op.tag))
       ELSE Fail(op, r.val)]
  /\ UNCHANGED <<cache, promises, requests, schemaHandlers, registry, nextId>>
  /\ UNCHANGED <<cacherHistory, applied>>

\* encodeForId and decode after `await getSchemaById(...)`
AfterById(o) ==
  LET op == ops[o]
      r == promises[op.wait]
  IN
  /\ op.pc = "byId"
  /\ FirstRunnable(o)
  /\ ops' = [ops EXCEPT ![o] =
       IF r.st # "fulfilled" THEN Fail(op, r.val)
       ELSE IF op.kind = "encodeForId"
         THEN encodeTail(op, [id |-> op.id, schema |-> r.val.schema,
                              schemaType |-> r.val.schemaType])
       ELSE decodeTail(op, [id |-> op.id, schema |-> r.val.schema,
                            schemaType |-> r.val.schemaType])]
  /\ UNCHANGED <<cache, promises, requests, schemaHandlers, registry, nextId>>
  /\ UNCHANGED <<cacherHistory, applied>>

Next ==
  \/ \E type \in HandledTypes : WithSchemaHandler(type, "factory")
  \/ \E subject \in Subjects, schema \in SchemaTexts, type \in HandledTypes :
       ExternalRegister(subject, schema, type)
  \/ \E subject \in Subjects, tag \in SchemaTypes, schema \in CallerSchemas :
       EncodeForSubject(subject, tag, schema)
  \/ \E id \in SchemaIds, tag \in SchemaTypes : EncodeForId(id, tag)
  \/ \E buf \in DecodeInputs : Decode(buf)
  \/ \E r \in DOMAIN requests : Respond(r)
  \/ \E o \in DOMAIN ops : AfterCheck(o)
  \/ \E o \in DOMAIN ops : AfterRegister(o)
  \/ \E o \in DOMAIN ops : AfterLatest(o)
  \/ \E o \in DOMAIN ops : AfterById(o)

Spec == Init /\ [][Next]_vars

\* SpecHandlers: the helper with factories that are replaced and factories
\* that fail
NextHandlers ==
  \/ \E type \in HandledTypes, factory \in Factories : WithSchemaHandler(type, factory)
  \/ \E subject \in Subjects, tag \in HandledTypes, schema \in SchemaTexts :
       EncodeForSubject(subject, tag, Str(schema))
  \/ \E buf \in DecodeInputs : Decode(buf)
  \/ \E r \in DOMAIN requests : Respond(r)
  \/ \E o \in DOMAIN ops : AfterCheck(o)
  \/ \E o \in DOMAIN ops : AfterRegister(o)
  \/ \E o \in DOMAIN ops : AfterById(o)

SpecHandlers == Init /\ [][NextHandlers]_vars

\* SpecLive: every request is answered in the end, with a response or a
\* transport error, and the event loop runs every queued continuation
Continue(o) == AfterCheck(o) \/ AfterRegister(o) \/ AfterLatest(o) \/ AfterById(o)

SpecLive ==
  /\ Spec
  /\ WF_vars(\E r \in DOMAIN requests : Respond(r))
  /\ WF_vars(\E o \in DOMAIN ops : Continue(o))

(***************************************************************************)
(* SpecInfo: decode and decodeWithSubjectAndVersionInformation             *)
(***************************************************************************)
\* what decodeWithSubjectAndVersionInformation resolves with
Info(message, subjects) == [t |-> "info", message |-> message, subjects |-> subjects]

\* helper.decodeWithSubjectAndVersionInformation(message) up to its first
\* await, or to its end
DecodeWithSubjectAndVersionInformation(buf) ==
  LET o == Len(ops) + 1
      op == NewOp("decodeWithSubjectAndVersionInformation", "", "", Undefined, 0, buf)
      d == kafkaDecode(buf)
  IN
  /\ Len(ops) < MaxOps
  /\ IF d.t = "error" THEN
       /\ ops' = Append(ops, Fail(op, d))
       /\ UNCHANGED <<cache, promises, requests>>
     ELSE IF Truthy(d.schemaId) THEN
       LET k == getSchemaByIdKey(d.schemaId.n) IN
       /\ CallCached(k, Request("getSchemaById", "", "", "", d.schemaId.n,
                                Len(promises) + 1, o))
       /\ ops' = Append(ops, [op EXCEPT !.pc = "byIdInfo", !.wait = Awaited(k),
                                        !.id = d.schemaId.n,
                                        !.sent = Sent(k, "getSchemaById")])
     ELSE
       /\ ops' = Append(ops, [op EXCEPT !.pc = "done",
                                        !.out = Info(Bytes(d.payload), Undefined)])
       /\ UNCHANGED <<cache, promises, requests>>
  /\ UNCHANGED <<schemaHandlers, registry, nextId>>
  /\ UNCHANGED <<cacherHistory, applied>>

\* decodeWithSubjectAndVersionInformation after `await getSchemaById(...)`:
\* it calls listVersionsForId, which is not cached
AfterByIdInfo(o) ==
  LET op == ops[o]
      r == promises[op.wait]
      pn == Len(promises) + 1
  IN
  /\ op.pc = "byIdInfo"
  /\ FirstRunnable(o)
  /\ IF r.st = "fulfilled" THEN
       /\ promises' = Append(promises, newPromise("listVersionsForId"))
       /\ requests' = Append(requests,
            Request("listVersionsForId", "", "", "", op.id, pn, o))
       /\ ops' = [ops EXCEPT ![o].pc = "versions", ![o].fetched = op.wait,
                             ![o].wait = pn,
                             ![o].sent = Append(@, "listVersionsForId")]
     ELSE
       /\ ops' = [ops EXCEPT ![o] = Fail(op, r.val)]
       /\ UNCHANGED <<promises, requests>>
  /\ UNCHANGED <<cache, schemaHandlers, registry, nextId>>
  /\ UNCHANGED <<cacherHistory, applied>>

\* decodeWithSubjectAndVersionInformation after
\* `await listVersionsForId(...)`: the decode, and the pairs attached
AfterListVersions(o) ==
  LET op == ops[o]
      r == promises[op.wait]
      got == promises[op.fetched].val
      decoded == decodeTail(op, [id |-> op.id, schema |-> got.schema,
                                 schemaType |-> got.schemaType])
  IN
  /\ op.pc = "versions"
  /\ FirstRunnable(o)
  /\ ops' = [ops EXCEPT ![o] =
       IF r.st # "fulfilled" THEN Fail(op, r.val)
       ELSE IF decoded.pc = "failed" THEN decoded
       ELSE [decoded EXCEPT !.out = Info(decoded.out, r.val)]]
  /\ UNCHANGED <<cache, promises, requests, schemaHandlers, registry, nextId>>
  /\ UNCHANGED <<cacherHistory, applied>>

NextInfo ==
  \/ \E type \in HandledTypes : WithSchemaHandler(type, "factory")
  \/ \E subject \in Subjects, schema \in SchemaTexts, type \in HandledTypes :
       ExternalRegister(subject, schema, type)
  \/ \E buf \in DecodeInputs : Decode(buf)
  \/ \E buf \in DecodeInputs : DecodeWithSubjectAndVersionInformation(buf)
  \/ \E r \in DOMAIN requests : Respond(r)
  \/ \E o \in DOMAIN ops : AfterById(o)
  \/ \E o \in DOMAIN ops : AfterByIdInfo(o)
  \/ \E o \in DOMAIN ops : AfterListVersions(o)

SpecInfo == Init /\ [][NextInfo]_vars

(***************************************************************************)
(* SpecPure: the pure functions applied to inputs drawn from bounded sets  *)
(***************************************************************************)
\* identifiers around the byte boundaries of the 4-byte field
CodecIds == {0, 1, 255, 256, 65535, 65536, 16777215, 16777216, 2147483647}
Payloads == { << >>, <<0>>, <<7>>, <<0, 0, 0, 0, 1, 7>> }
RawBuffers ==
  { << >>, <<0>>, <<0, 1>>, <<0, 0, 0, 1>>, <<1>>, <<1, 2>>, <<255, 0, 0, 0, 1>>,
    <<1, 0, 0, 0, 0, 7>>, <<0, 0, 0, 0, 0>>, <<0, 0, 0, 0, 1, 7>> }

Masks == { <<TRUE>>, <<TRUE, TRUE>>, <<TRUE, FALSE>>, <<FALSE, TRUE>>, <<FALSE, FALSE>> }
TwoArgs == { <<Str(x), Str(y)>> : x \in {"a", "b"}, y \in {"a", "b"} }

ErrorCodes == {1, 404, 409, 40401, 40402, 40403, 42201, 50001}
Statuses == {200, 201, 204, 403, 404, 409, 500}
Successful == 200..299
Responses ==
  { Http(st, JsonBody([error_code |-> c])) : st \in Statuses \ {200}, c \in ErrorCodes }
  \cup { Http(st, body) : st \in Statuses, body \in {TextBody, EmptyBody} }
  \cup { Http(st, JsonBody([id |-> 1, schema |-> Str("A"), schemaType |-> Undefined])) :
           st \in Statuses \cap Successful }
  \cup { [kind |-> "neterr"] }

\* what checkSchema or registerSchema may resolve with: the identifier, and
\* schema and schemaType present or not
ResultBodies ==
  { [id |-> 1, schema |-> sc, schemaType |-> ty] :
      sc \in {Undefined, Str("B")}, ty \in {Undefined, Str("AVRO"), Str("PROTOBUF")} }

\* the names of wrapped functions: two methods and an anonymous function
FnNames == {"checkSchema", "getSchemaById", ""}

\* argument lists that differ in the type of an argument or in where the
\* separator falls
KeyArgs ==
  { <<Num(1)>>, <<Str("1")>>, <<Str("2")>>,
    <<Str("a__b"), Str("c")>>, <<Str("a"), Str("b__c")>>, <<Str("a"), Str("c")>> }

\* values that are not a Buffer
NonBuffers == { Undefined, Str("a"), Num(7), Obj("[7]") }

PureInputs ==
  { [fn |-> "kafkaEncode", id |-> i, payload |-> p, out |-> None] :
      i \in CodecIds, p \in Payloads }
  \cup { [fn |-> "kafkaEncodeOf", id |-> i, message |-> v, out |-> None] :
           i \in CodecIds, v \in NonBuffers \cup {Bytes(<<7>>)} }
  \cup { [fn |-> "kafkaDecode", buf |-> b, out |-> None] : b \in RawBuffers }
  \cup { [fn |-> "request", resp |-> resp, out |-> None] : resp \in Responses }
  \cup { [fn |-> "cached", mask |-> k, first |-> a, second |-> b, out |-> None] :
           k \in Masks, a \in TwoArgs, b \in TwoArgs }
  \cup UNION { { [fn |-> "cachedKeys", mask |-> k, first |-> a, second |-> b,
                   out |-> None] : a \in { x \in KeyArgs : Len(x) = Len(k) },
                                   b \in { x \in KeyArgs : Len(x) = Len(k) } } :
                 k \in {<<TRUE>>, <<TRUE, TRUE>>} }
  \cup { [fn |-> "cachedPair", nameA |-> a, nameB |-> b, args |-> x, out |-> None] :
           a \in FnNames, b \in FnNames, x \in ArgLists }
  \cup { [fn |-> "makeSureSchemaIsRegistered", via |-> v, res |-> b,
          schema |-> Str("A"), schemaType |-> ty, out |-> None] :
           v \in {"checkSchema", "registerSchema"}, b \in ResultBodies,
           ty \in HandledTypes }

InitPure ==
  /\ cache = << >> /\ promises = << >> /\ calls = << >> /\ invs = << >>
  /\ lastOk = << >> /\ failedKeys = {}
  /\ schemaHandlers = << >> /\ registry = << >> /\ nextId = 0
  /\ requests = << >> /\ ops = << >>
  /\ applied \in PureInputs

pureUnchanged ==
  UNCHANGED <<cache, promises, calls, invs, lastOk, failedKeys,
              schemaHandlers, registry, nextId, requests, ops>>

\* kafkaEncode(schemaId, encodedMessage)
ApplyKafkaEncode ==
  /\ applied.fn = "kafkaEncode" /\ applied.out = None
  /\ applied' = [applied EXCEPT !.out = kafkaEncode(applied.id, Bytes(applied.payload))]
  /\ pureUnchanged

\* kafkaEncode(schemaId, encodedMessage) with any value as encodedMessage
ApplyKafkaEncodeOf ==
  /\ applied.fn = "kafkaEncodeOf" /\ applied.out = None
  /\ applied' = [applied EXCEPT !.out = kafkaEncode(applied.id, applied.message)]
  /\ pureUnchanged

\* kafkaDecode(kafkaEncode(schemaId, encodedMessage))
ApplyKafkaDecodeOfFrame ==
  /\ applied.fn = "kafkaEncode" /\ applied.out # None
  /\ applied' = [fn |-> "roundTrip", id |-> applied.id, payload |-> applied.payload,
                 out |-> kafkaDecode(applied.out.bytes)]
  /\ pureUnchanged

\* kafkaDecode(rawMessage)
ApplyKafkaDecode ==
  /\ applied.fn = "kafkaDecode" /\ applied.out = None
  /\ applied' = [applied EXCEPT !.out = kafkaDecode(applied.buf)]
  /\ pureUnchanged

\* w = createCachedFunction(fn, mask); w(...first); w(...second), where fn
\* returns an object: the keys of the two calls and whether the second call
\* finds the entry of the first
ApplyCachedTwice ==
  LET key1 == cacheKey("fn", applied.mask, applied.first)
      key2 == cacheKey("fn", applied.mask, applied.second)
  IN
  /\ applied.fn \in {"cached", "cachedKeys"} /\ applied.out = None
  /\ applied' = [applied EXCEPT !.out =
       [key1 |-> key1, key2 |-> key2,
        hit |-> cacheHit(cachePut(<< >>, key1.s, Fresh(1)), key2.s)]]
  /\ pureUnchanged

\* wA = createCachedFunction(fnA, [true]); wB = createCachedFunction(fnB,
\* [true]) on one FunctionCacher, fnA and fnB two functions named nameA and
\* nameB that return an object; wA(...args); wB(...args): the keys of the two
\* calls and whether the call of wB finds the entry of wA
ApplyCachedPair ==
  LET key1 == cacheKey(applied.nameA, <<TRUE>>, applied.args)
      key2 == cacheKey(applied.nameB, <<TRUE>>, applied.args)
  IN
  /\ applied.fn = "cachedPair" /\ applied.out = None
  /\ applied' = [applied EXCEPT !.out =
       [key1 |-> key1, key2 |-> key2,
        hit |-> cacheHit(cachePut(<< >>, key1.s, Fresh(1)), key2.s)]]
  /\ pureUnchanged

\* a client method whose request gets the response: what request settles
\* to, and what the method settles to
ApplyRequest ==
  /\ applied.fn = "request" /\ applied.out = None
  /\ applied' = [applied EXCEPT !.out =
       [request |-> request(1, applied.resp), method |-> clientMethod(1, applied.resp)]]
  /\ pureUnchanged

\* makeSureSchemaIsRegistered(subject, schemaType, schema) whose checkSchema,
\* or whose registerSchema after a 404, resolves with res
ApplyMakeSure ==
  /\ applied.fn = "makeSureSchemaIsRegistered" /\ applied.out = None
  /\ applied' = [applied EXCEPT !.out =
       IF applied.via = "checkSchema"
       THEN checkResult(applied.res, applied.schema, applied.schemaType)
       ELSE registerResult(applied.res, applied.schema, applied.schemaType)]
  /\ pureUnchanged

NextPure ==
  \/ ApplyRequest
  \/ ApplyMakeSure
  \/ ApplyKafkaEncode
  \/ ApplyKafkaEncodeOf
  \/ ApplyKafkaDecodeOfFrame
  \/ ApplyKafkaDecode
  \/ ApplyCachedTwice
  \/ ApplyCachedPair

SpecPure == InitPure /\ [][NextPure]_vars

(***************************************************************************)
(* FunctionCacher: properties                                              *)
(***************************************************************************)
\* C1: once a call with key K has completed successfully with a result other
\* than undefined, every later call with the same K and no user clear() of K
\* in between is served from the cache: the wrapped function is not invoked
\* again and the call returns the result of the first call.
C1_CachedAfterSuccess ==
  \A c \in DOMAIN calls :
    calls[c].prior \notin {None, Undefined} =>
      ~calls[c].invoked /\ calls[c].ret = calls[c].prior

\* C2: a promise whose failure has left the wrapper (its catch handler has
\* run) is no longer stored under any key, a caller that has observed a
\* failure does not find the promise it was handed in the cache, and the
\* first call for a key after a failed call invokes the wrapped function
\* again.
C2_FailureEvicted ==
  /\ \A k \in DOMAIN cache :
       cache[k].t = "promise" => promises[cache[k].p].st # "rejected"
  /\ \A c \in DOMAIN calls :
       calls[c].seen = "fail" => cacheGet(cache, calls[c].key) # calls[c].ret
  /\ \A c \in DOMAIN calls : calls[c].afterFailure => calls[c].invoked

\* an asynchronous call failed, its caller saw the failure, and the next call
\* with the same key invoked the wrapped function again
C2_Witness ==
  \E c, d \in DOMAIN calls :
    /\ c < d
    /\ calls[c].key = calls[d].key
    /\ calls[c].ret.t = "promise"
    /\ calls[c].seen = "fail"
    /\ calls[d].afterFailure
    /\ calls[d].invoked

\* C3 as stated: a call issued while an earlier call with the same key has
\* not yet resolved triggers its own invocation of the wrapped function, and
\* finds no uncompleted entry in the cache.
C3_NotDeduplicated ==
  \A c \in DOMAIN calls :
    calls[c].concurrent => calls[c].invoked /\ ~calls[c].joined

\* C3 amended: the wrapper stores the promise at call time, so a call issued
\* while the cache holds a still unsettled promise for its key is handed that
\* very promise, the one an earlier invoking call with the same key was
\* handed, and does not invoke the wrapped function.
C3_Deduplicated ==
  \A c \in DOMAIN calls :
    calls[c].joined =>
      /\ ~calls[c].invoked
      /\ calls[c].ret.t = "promise"
      /\ \E d \in 1..(c - 1) :
           /\ calls[d].invoked
           /\ calls[d].key = calls[c].key
           /\ calls[d].ret = calls[c].ret

\* two calls with the same key share one pending promise and one invocation
C3_Witness ==
  \E c \in DOMAIN calls :
    /\ calls[c].joined
    /\ calls[c].concurrent
    /\ ~calls[c].invoked
    /\ Len(invs) < Len(calls)

(***************************************************************************)
(* KafkaRegistryHelper: properties                                         *)
(***************************************************************************)
EncodeOps == { o \in DOMAIN ops : ops[o].kind \in {"encodeForSubject", "encodeForId"} }
WithSchema == { o \in DOMAIN ops : ops[o].kind = "encodeForSubject" /\ Truthy(ops[o].schema) }
WithoutSchema ==
  { o \in DOMAIN ops : ops[o].kind = "encodeForSubject" /\ ~Truthy(ops[o].schema) }
Registers(o) == \E i \in DOMAIN ops[o].sent : ops[o].sent[i] = "registerSchema"
CheckOf(o) == promises[ops[o].checked]

\* C4: with a schema supplied, a call requests registerSchema only after the
\* checkSchema it awaited was rejected with a SchemaRegistryError of code
\* 404; when checkSchema succeeds the call resolves with the checked
\* identifier and requests no registration.
C4_RegisterOnlyAfterNotFound ==
  \A o \in WithSchema :
    /\ Registers(o) =>
         /\ ops[o].checked # 0
         /\ CheckOf(o).st = "rejected"
         /\ CheckOf(o).val.name = "SchemaRegistryError"
         /\ CheckOf(o).val.errorCode = 404
    /\ (ops[o].checked # 0 /\ ops[o].pc # "check" /\ CheckOf(o).st = "fulfilled") =>
         /\ ~Registers(o)
         /\ ops[o].resolved.id = CheckOf(o).val.id

C4_Witness ==
  /\ \E o \in WithSchema : Registers(o) /\ ops[o].pc = "done"
  /\ \E o \in WithSchema :
       ops[o].pc = "done" /\ CheckOf(o).st = "fulfilled" /\ ~Registers(o)

\* C5: when checkSchema fails with anything but a 404 SchemaRegistryError,
\* encodeForSubject rejects with that same error, requests no registration
\* and does not call the handler factory.
C5_OtherCheckFailurePropagates ==
  \A o \in WithSchema :
    (ops[o].checked # 0 /\ ops[o].pc # "check" /\ CheckOf(o).st = "rejected"
       /\ ~(CheckOf(o).val.name = "SchemaRegistryError"
            /\ CheckOf(o).val.errorCode = 404)) =>
      /\ ops[o].pc = "failed"
      /\ ops[o].out = CheckOf(o).val
      /\ ~Registers(o)
      /\ ops[o].factory = << >>

C5_Witness ==
  \E o1 \in WithSchema, o2 \in WithSchema :
    /\ \A o \in {o1, o2} :
         /\ ops[o].pc = "failed"
         /\ ops[o].checked # 0
         /\ CheckOf(o).st = "rejected"
         /\ ops[o].out = CheckOf(o).val
    /\ ops[o1].out.name = "SchemaRegistryError"
    /\ ops[o1].out.errorCode = 50001
    /\ ops[o2].out.name \in {"Error", "SyntaxError", "ECONNREFUSED"}

\* C6: encodeForSubject without a schema resolves through
\* getLatestVersionForSubject alone: it requests neither checkSchema nor
\* registerSchema, and any failure of the fetch, a 404 included, rejects the
\* call with that error.
C6_LatestOnlyWithoutSchema ==
  \A o \in WithoutSchema :
    /\ \A i \in DOMAIN ops[o].sent : ops[o].sent[i] = "getLatestVersionForSubject"
    /\ ops[o].checked = 0
    /\ ops[o].pc \in {"latest", "done", "failed"}
    /\ (ops[o].hadHandler /\ ops[o].pc # "latest"
          /\ promises[ops[o].wait].st = "rejected") =>
         /\ ops[o].pc = "failed"
         /\ ops[o].out = promises[ops[o].wait].val

C6_Witness ==
  \E o1 \in WithoutSchema, o2 \in WithoutSchema :
    /\ ops[o1].pc = "failed"
    /\ ops[o1].out.name = "SchemaRegistryError"
    /\ ops[o1].out.errorCode = 404
    /\ ops[o1].sent = <<"getLatestVersionForSubject">>
    /\ ops[o2].pc = "done"
    /\ ops[o2].sent = <<"getLatestVersionForSubject">>

\* o1 finished before o2 was called, with the same subject, tag and schema
Sequential(o1, o2) ==
  /\ o1 \in ops[o2].before
  /\ ops[o1].subject = ops[o2].subject
  /\ ops[o1].tag = ops[o2].tag
  /\ ops[o1].schema = ops[o2].schema

\* C7: of two calls in sequence with the same subject and schema, where the
\* first got 404 from checkSchema and registered, the second does not get
\* the first's check from the cache; when its own check finds the schema it
\* resolves to the same identifier and requests no registration.
C7_IdempotentRegistration ==
  \A o1 \in WithSchema, o2 \in WithSchema :
    (Sequential(o1, o2) /\ Registers(o1) /\ ops[o1].pc = "done") =>
      /\ ops[o2].checked # ops[o1].checked
      /\ (ops[o2].pc # "check" /\ CheckOf(o2).st = "fulfilled") =>
           /\ ops[o2].resolved.id = ops[o1].resolved.id
           /\ ~Registers(o2)

C7_Witness ==
  \E o1 \in WithSchema, o2 \in WithSchema :
    /\ Sequential(o1, o2) /\ Registers(o1) /\ ops[o1].pc = "done"
    /\ ops[o2].pc = "done"
    /\ ops[o2].sent = <<"checkSchema">>
    /\ CheckOf(o2).st = "fulfilled"
    /\ ops[o2].resolved.id = ops[o1].resolved.id

\* C8: encodeForSubject and encodeForId fail with the Mismatch error
\* whenever the declared tag differs from the tag the registry has recorded
\* for the resolved schema, on every resolution path.
C8_MismatchDetected ==
  \A o \in EncodeOps :
    (ops[o].recorded # None /\ ops[o].recorded # Str(ops[o].tag)) =>
      (ops[o].pc = "failed" /\ ops[o].out = MismatchError)

\* C9: with no handler factory for the requested tag, encodeForSubject and
\* encodeForId fail with the 'No protocol handler' error without sending a
\* request, and leave the cache and the registry as they were.
C9_NoHandlerFailsFirst ==
  /\ [](\A o \in EncodeOps :
          ~ops[o].hadHandler =>
            /\ ops[o].pc = "failed"
            /\ ops[o].out = NoHandlerError(ops[o].tag)
            /\ ops[o].sent = << >>)
  /\ [][\A o \in DOMAIN ops' :
          (o \notin DOMAIN ops /\ ops'[o].kind # "decode" /\ ~ops'[o].hadHandler) =>
            UNCHANGED <<cache, promises, requests, registry, nextId>>]_vars

C9_Witness ==
  /\ \E o \in EncodeOps : ops[o].kind = "encodeForSubject" /\ ~ops[o].hadHandler
  /\ \E o \in EncodeOps : ops[o].kind = "encodeForId" /\ ~ops[o].hadHandler
  /\ schemaHandlers # << >>

\* the operations that decode a message with the marker byte and a 4-byte
\* identifier
FramedDecodes ==
  { o \in DOMAIN ops :
      ops[o].kind = "decode" /\ Len(ops[o].buf) >= 5 /\ ops[o].buf[1] = 0 }

\* C10: for every message with first byte 0 and any 4-byte identifier,
\* decode fetches the schema for the identifier through the cached
\* getSchemaById and returns the handler's decoding of the bytes from offset
\* 5; it passes the message through only when it has no identifier.
C10_FramedAlwaysDecoded ==
  \A o \in FramedDecodes :
    /\ ops[o].pc # "failed" =>
         /\ ops[o].wait # 0
         /\ promises[ops[o].wait].key = getSchemaByIdKey(readUInt32BE(ops[o].buf))
    /\ ops[o].pc = "done" =>
         /\ ops[o].out.t = "message"
         /\ ops[o].out.payload = SubSeq(ops[o].buf, 6, Len(ops[o].buf))

\* the decode operations that have resolved a schema
ResolvedDecodes ==
  { o \in DOMAIN ops : ops[o].kind = "decode" /\ ops[o].resolved # None }

\* C11: when decode resolves a schema whose tag has no handler factory, it
\* fails with the 'No protocol handler' error the encode operations raise,
\* and does not pass the bytes through.
C11_DecodeNoHandlerError ==
  \A o \in ResolvedDecodes :
    ops[o].factory = << >> =>
      /\ ops[o].pc = "failed"
      /\ ops[o].out = NoHandlerError(orElse(ops[o].resolved.schemaType, Str(AVRO)).s)

\* decode operation o2 was called, after o1 had finished, with the buffer
\* encodeForSubject operation o1 resolved with
DecodesResultOf(o2, o1) ==
  /\ ops[o1].kind = "encodeForSubject" /\ ops[o1].pc = "done"
  /\ ops[o2].kind = "decode"
  /\ o1 \in ops[o2].before
  /\ ops[o2].buf = ops[o1].out.bytes

\* C12: decode of what encodeForSubject(subject, message, tag, schema)
\* returned is the message, for every identifier the registry may assign,
\* when the registry answers with the registered schema: decode resolves
\* with what the handler for the tag and schema of the encoding decodes from
\* the handler's encoding.
C12_EndToEndRoundTrip ==
  \A o1 \in WithSchema, o2 \in DOMAIN ops :
    (/\ DecodesResultOf(o2, o1)
     /\ Finished(o2)
     /\ ops[o2].wait # 0 => promises[ops[o2].wait].st = "fulfilled") =>
      /\ ops[o2].pc = "done"
      /\ ops[o2].out = HandlerDecode(ops[o1].factory[1].type, ops[o1].factory[1].schema,
                                     HandlerEncode(ops[o1].factory[1].type,
                                                   ops[o1].factory[1].schema).bytes)

\* C13: kafkaDecode(kafkaEncode(i, p)) returns schemaId = i and payload = p
\* for every buffer p and identifier i.
C13_FrameRoundTrip ==
  applied.fn = "roundTrip" =>
    /\ applied.out.t = "decoded"
    /\ applied.out.schemaId = Num(applied.id)
    /\ applied.out.payload = applied.payload

C13_Witness ==
  /\ applied.fn = "roundTrip"
  /\ applied.id = 2147483647
  /\ applied.payload = <<0, 0, 0, 0, 1, 7>>
  /\ applied.out.schemaId = Num(2147483647)

\* the decode operations on a buffer whose first byte is not 0
UnframedDecodes ==
  { o \in DOMAIN ops :
      ops[o].kind = "decode" /\ Len(ops[o].buf) > 0 /\ ops[o].buf[1] # 0 }

\* C14: for a buffer whose first byte is not 0, kafkaDecode returns the
\* buffer as payload with no schemaId, and decode resolves with that buffer
\* without a registry request, a handler or a change of the cache.
C14_Passthrough ==
  /\ [](\A o \in UnframedDecodes :
          /\ kafkaDecode(ops[o].buf) =
               [t |-> "decoded", schemaId |-> Undefined, payload |-> ops[o].buf]
          /\ ops[o].pc = "done"
          /\ ops[o].out = Bytes(ops[o].buf)
          /\ ops[o].sent = << >>
          /\ ops[o].factory = << >>)
  /\ [][\A o \in DOMAIN ops' :
          (/\ o \notin DOMAIN ops
           /\ ops'[o].kind = "decode"
           /\ Len(ops'[o].buf) > 0
           /\ ops'[o].buf[1] # 0) =>
            UNCHANGED <<cache, promises, requests, registry, nextId>>]_vars

C14_Witness ==
  /\ \E o \in UnframedDecodes : ops[o].out = Bytes(<<1, 2>>)
  /\ cache # << >>

\* C15: a buffer shorter than the 5-byte preamble is passed through by
\* kafkaDecode with no schemaId and without an error.
C15_ShortBufferPassthrough ==
  (applied.fn = "kafkaDecode" /\ applied.out # None /\ Len(applied.buf) < 5) =>
    applied.out = [t |-> "decoded", schemaId |-> Undefined, payload |-> applied.buf]

\* C16: encodeForSubject with the schema omitted frames the message with
\* the identifier, and encodes with the schema, of the subject's latest
\* version at the time of the call.  An answer still to come is worked out
\* by the registry after the call; an answer the call finds already there
\* has to be the latest version as the registry has it at the call, and the
\* call resolves with the answer it awaited.
C16_LatestAtCallTime ==
  /\ [](\A o \in WithoutSchema :
          ops[o].pc = "done" =>
            /\ ops[o].resolved.id = promises[ops[o].wait].val.id
            /\ ops[o].resolved.schema = promises[ops[o].wait].val.schema
            /\ readUInt32BE(ops[o].out.bytes) = ops[o].resolved.id)
  /\ [][\A o \in DOMAIN ops' :
          (/\ o \notin DOMAIN ops
           /\ ops'[o].kind = "encodeForSubject"
           /\ ~Truthy(ops'[o].schema)
           /\ ops'[o].pc = "latest"
           /\ promises'[ops'[o].wait].st = "fulfilled") =>
            /\ Versions(ops'[o].subject) # {}
            /\ promises'[ops'[o].wait].val.id =
                 registry[Max(Versions(ops'[o].subject))].id
            /\ promises'[ops'[o].wait].val.schema =
                 Str(registry[Max(Versions(ops'[o].subject))].schema)]_vars

\* the two argument lists agree on every argument the mask marks true
SameMaskedArgs(mask, a, b) ==
  \A i \in 1..Len(mask) : mask[i] => ArgAt(a, i) = ArgAt(b, i)

\* C17: exactly the arguments whose mask entry is true contribute to the
\* cache key: two calls that agree on them have the same key, so the second
\* is served from the cache; two calls that differ in one of them do not.
C17_MaskSelectsKeyArguments ==
  (applied.fn = "cached" /\ applied.out # None) =>
    /\ SameMaskedArgs(applied.mask, applied.first, applied.second) <=>
         applied.out.key1 = applied.out.key2
    /\ SameMaskedArgs(applied.mask, applied.first, applied.second) <=>
         applied.out.hit

\* the response is an error response with the given form of body (a JSON
\* body is one that carries an error_code)
ErrorResponse(resp, form) ==
  /\ resp.kind = "http" /\ resp.status # 200 /\ resp.body.form = form
  /\ form = "json" => "error_code" \in DOMAIN resp.body.value

\* C18: an error response whose body carries error_code 404, 40401 or 40403
\* is surfaced as a SchemaRegistryError with errorCode 404, and any other
\* error_code unchanged.
C18_NotFoundCodesSquashed ==
  (applied.fn = "request" /\ applied.out # None
     /\ ErrorResponse(applied.resp, "json")) =>
    /\ ~applied.out.method.ok
    /\ applied.out.method.val.name = "SchemaRegistryError"
    /\ applied.out.method.val.errorCode =
         IF applied.resp.body.value.error_code \in {404, 40401, 40403} THEN 404
         ELSE applied.resp.body.value.error_code

C18_Witness ==
  /\ applied.fn = "request" /\ applied.out # None
  /\ ErrorResponse(applied.resp, "json")
  /\ applied.resp.body.value.error_code = 40403
  /\ applied.out.method.val.errorCode = 404

\* C19: an error response with an empty body fails the operation with the
\* generic 'Invalid schema registry response' error, and one whose body is
\* not JSON with the parse failure; neither resolves the operation.
C19_EmptyAndUnparseableBodies ==
  (applied.fn = "request" /\ applied.out # None) =>
    /\ ErrorResponse(applied.resp, "empty") =>
         /\ ~applied.out.method.ok
         /\ applied.out.method.val.name = "Error"
         /\ applied.out.method.val.message = "Invalid schema registry response"
    /\ ErrorResponse(applied.resp, "text") =>
         /\ ~applied.out.method.ok
         /\ applied.out.method.val.name = "SyntaxError"

C19_Witness ==
  /\ applied.fn = "request" /\ applied.out # None
  /\ ErrorResponse(applied.resp, "empty")
  /\ applied.out.method.val.name = "Error"

\* the requests that ended with a network-level failure
NetFailed == { r \in DOMAIN requests : requests[r].net }

\* C20: a network-level failure of a request rejects the client operation
\* with that very error, never a SchemaRegistryError, and an encodeForSubject
\* whose checkSchema failed so rejects with it and requests no registration.
C20_NetworkErrorUntouched ==
  /\ \A r \in NetFailed :
       /\ promises[requests[r].promise].st = "rejected"
       /\ promises[requests[r].promise].val.name = "ECONNREFUSED"
       /\ promises[requests[r].promise].val.req = r
  /\ \A o \in WithSchema, r \in NetFailed :
       (ops[o].checked = requests[r].promise /\ ops[o].pc # "check") =>
         /\ ops[o].pc = "failed"
         /\ ops[o].out = promises[requests[r].promise].val
         /\ ~Registers(o)

C20_Witness ==
  \E o \in WithSchema, r \in NetFailed :
    /\ requests[r].kind = "checkSchema"
    /\ ops[o].checked = requests[r].promise
    /\ ops[o].pc = "failed"
    /\ ops[o].out.name = "ECONNREFUSED"
    /\ \E q \in NetFailed : requests[q].kind = "registerSchema"

(***************************************************************************)
(* SchemaRegistryClient.request: which responses are errors                *)
(***************************************************************************)
\* C21: a response is an error only when its status is not 2xx: every
\* response with a 2xx status resolves the request with the response body
\* and every response with another status rejects it.
C21_ErrorOnlyWhenNot2xx ==
  (applied.fn = "request" /\ applied.out # None /\ applied.resp.kind = "http") =>
    IF applied.resp.status \in Successful
    THEN applied.out.request = Resolved(applied.resp.body)
    ELSE ~applied.out.request.ok

(***************************************************************************)
(* KafkaRegistryHelper: requests of one invocation                         *)
(***************************************************************************)
\* the requests operation o made the client send, and those of them still
\* without a response
RequestsOf(o) == { r \in DOMAIN requests : requests[r].op = o }
InFlight(o) == { r \in RequestsOf(o) : requests[r].st = "pending" }

\* C22: one invocation of encodeForSubject, encodeForId or decode issues at
\* most two registry requests, one after the other: it never has two
\* requests in flight, and only encodeForSubject issues a second one.
C22_AtMostTwoSequentialRequests ==
  \A o \in DOMAIN ops :
    /\ Cardinality(RequestsOf(o)) <= 2
    /\ Cardinality(RequestsOf(o)) = Len(ops[o].sent)
    /\ Cardinality(InFlight(o)) <= 1
    /\ ops[o].kind \in {"encodeForId", "decode"} => Cardinality(RequestsOf(o)) <= 1

C22_Witness ==
  \E o \in DOMAIN ops :
    /\ Cardinality(RequestsOf(o)) = 2
    /\ InFlight(o) = {}
    /\ ops[o].pc = "done"
    /\ \E q \in DOMAIN ops : ops[q].kind = "decode" /\ Cardinality(RequestsOf(q)) = 1

(***************************************************************************)
(* makeSureSchemaIsRegistered: the resolution result                       *)
(***************************************************************************)
\* C23: the resolution result carries the identifier of the checkSchema or
\* registerSchema response, and for schema and schemaType the field of the
\* response when it is there and the caller's schema or format tag when the
\* response omits it.
C23_OmittedFieldsFromCaller ==
  (applied.fn = "makeSureSchemaIsRegistered" /\ applied.out # None) =>
    /\ applied.out.id = applied.res.id
    /\ applied.out.schema =
         IF applied.res.schema = Undefined THEN applied.schema ELSE applied.res.schema
    /\ applied.out.schemaType =
         IF applied.res.schemaType = Undefined THEN Str(applied.schemaType)
         ELSE applied.res.schemaType

C23_Witness ==
  /\ applied.fn = "makeSureSchemaIsRegistered" /\ applied.out # None
  /\ applied.via = "registerSchema"
  /\ applied.res.schema = Undefined /\ applied.res.schemaType = Undefined
  /\ applied.out = [id |-> 1, schema |-> Str("A"), schemaType |-> Str("PROTOBUF")]

(***************************************************************************)
(* encodeForSubject / encodeForId: the frame returned                      *)
(***************************************************************************)
\* the encode operations that resolved, with a buffer
Encoded == { o \in EncodeOps : ops[o].pc = "done" }

\* C24: the buffer a successful encodeForSubject or encodeForId returns is
\* 5 bytes longer than the handler's output, starts with byte 0, carries the
\* resolved identifier big-endian in bytes 1 to 4, and the handler's bytes
\* unchanged from offset 5.
C24_FrameOfEncode ==
  \A o \in Encoded :
    LET b == ops[o].out.bytes
        h == HandlerEncode(ops[o].tag, ops[o].resolved.schema).bytes
    IN /\ Len(b) = 5 + Len(h)
       /\ b[1] = 0
       /\ b[2] * 16777216 + b[3] * 65536 + b[4] * 256 + b[5] = ops[o].resolved.id
       /\ \A i \in 2..5 : b[i] \in 0..255
       /\ SubSeq(b, 6, Len(b)) = h

\* checkSchema answered 404, registerSchema answered with id 1, and the
\* frame is 00 00 00 00 01 followed by the handler's bytes
C24_Witness ==
  \E o \in Encoded :
    /\ ops[o].sent = <<"checkSchema", "registerSchema">>
    /\ IsNotFound(CheckOf(o).val)
    /\ promises[ops[o].wait].val.id = 1
    /\ ops[o].out = Bytes(<<0, 0, 0, 0, 1, 65>>)
    /\ \E q \in Encoded : ops[q].kind = "encodeForId"

(***************************************************************************)
(* decodeWithSubjectAndVersionInformation                                  *)
(***************************************************************************)
InfoOps ==
  { o \in DOMAIN ops : ops[o].kind = "decodeWithSubjectAndVersionInformation" }
DecodeOps == { o \in DOMAIN ops : ops[o].kind = "decode" }

C26_NonBufferRejected ==
  (applied.fn = "kafkaEncodeOf" /\ applied.out # None
     /\ applied.message.t # "buffer") =>
    /\ applied.out.t = "error"
    /\ applied.out.message = "encoded message must be of type Buffer"

C26_Witness ==
  /\ applied.fn = "kafkaEncodeOf" /\ applied.out # None
  /\ applied.message = Str("a") /\ applied.id = 1
  /\ applied.out.t = "error"

(***************************************************************************)
(* CachedSchemaRegistryClient: what is memoized                            *)
(***************************************************************************)
\* the promise of the cached method operation o called first (0: none), and
\* the key of that call
FirstAwaited(o) == IF ops[o].checked # 0 THEN ops[o].checked ELSE ops[o].wait
CachedKey(o) ==
  IF ops[o].kind = "encodeForSubject"
  THEN IF Truthy(ops[o].schema)
       THEN checkSchemaKey(ops[o].subject, ops[o].tag, ops[o].schema.s)
       ELSE getLatestVersionForSubjectKey(ops[o].subject)
  ELSE getSchemaByIdKey(ops[o].id)
RegisterRequests == { r \in DOMAIN requests : requests[r].kind = "registerSchema" }

\* C27: checkSchema, getLatestVersionForSubject and getSchemaById are
\* memoized: a call that repeats the cached call of an operation that has
\* finished and whose cached call succeeded gets that operation's answer and
\* issues no request at all; registerSchema is not: every call of it sends
\* a request of its own.
C27_MemoizedExactly ==
  /\ \A o \in DOMAIN ops : \A q \in ops[o].before :
       (/\ FirstAwaited(q) # 0 /\ FirstAwaited(o) # 0
        /\ promises[FirstAwaited(q)].st = "fulfilled"
        /\ CachedKey(o) = CachedKey(q)) =>
         /\ RequestsOf(o) = {}
         /\ FirstAwaited(o) = FirstAwaited(q)
  /\ \A o \in DOMAIN ops :
       Registers(o) => \E r \in RegisterRequests : requests[r].op = o
  /\ Cardinality(RegisterRequests) =
       Cardinality({ o \in DOMAIN ops : Registers(o) })

C27_Witness ==
  \E o \in WithSchema : \E q \in ops[o].before :
    /\ q \in WithSchema
    /\ CachedKey(o) = CachedKey(q)
    /\ FirstAwaited(q) # 0 /\ FirstAwaited(o) = FirstAwaited(q)
    /\ promises[FirstAwaited(q)].st = "fulfilled"
    /\ RequestsOf(q) # {} /\ RequestsOf(o) = {}
    /\ ops[o].pc = "done" /\ ops[q].pc = "done"

(***************************************************************************)
(* encodeForSubject / encodeForId: order of resolution and encoding        *)
(***************************************************************************)
\* C28: within one encodeForSubject or encodeForId the handler factory is
\* invoked, once, only after the schema resolution has succeeded and the
\* schema types have been found equal, with the resolved schema; a call
\* still resolving, or one that failed in its resolution or on a mismatch,
\* has not invoked it.
C28_EncodeAfterResolution ==
  \A o \in EncodeOps :
    /\ ops[o].factory # << >> =>
         /\ Len(ops[o].factory) = 1
         /\ ops[o].pc = "done"
         /\ InFlight(o) = {}
         /\ promises[ops[o].wait].st = "fulfilled"
         /\ ops[o].resolved # None
         /\ orElse(ops[o].resolved.schemaType, Str(AVRO)) = Str(ops[o].tag)
         /\ ops[o].factory[1] =
              [type |-> ops[o].tag, schema |-> ops[o].resolved.schema]
    /\ ops[o].pc # "done" => ops[o].factory = << >>

C28_Witness ==
  \E o \in EncodeOps, q \in EncodeOps :
    /\ ops[o].pc = "done" /\ ops[o].factory # << >>
    /\ ops[o].sent = <<"checkSchema", "registerSchema">>
    /\ ops[q].pc = "failed" /\ ops[q].out = MismatchError
    /\ ops[q].factory = << >>

(***************************************************************************)
(* makeSureSchemaIsRegistered: no retry                                    *)
(***************************************************************************)
\* request r was answered with a failure that fails the call: any failure
\* but a 404 of checkSchema
Fatal(r) ==
  /\ requests[r].st = "done"
  /\ promises[requests[r].promise].st = "rejected"
  /\ ~(requests[r].kind = "checkSchema" /\ IsNotFound(promises[requests[r].promise].val))

\* C29: once a request of an encodeForSubject call has failed in a way that
\* fails the call (checkSchema with another error than 404, registerSchema
\* or getLatestVersionForSubject with any error), it stays the call's last
\* request, the call rejects with that error, and a call that has rejected
\* neither resumes nor issues a request.
C29_NoInternalRetry ==
  /\ [](\A o \in DOMAIN ops : \A r \in RequestsOf(o) :
          (ops[o].kind = "encodeForSubject" /\ Fatal(r)) =>
            /\ \A r2 \in RequestsOf(o) : r2 <= r
            /\ Runnable(o) \/ ops[o].pc = "failed"
            /\ ops[o].pc = "failed" => ops[o].out = promises[requests[r].promise].val)
  /\ [][\A o \in DOMAIN ops :
          ops[o].pc = "failed" =>
            /\ ops'[o] = ops[o]
            /\ { r \in DOMAIN requests' : requests'[r].op = o } = RequestsOf(o)]_vars

C29_Witness ==
  \E o \in WithSchema, q \in WithSchema :
    /\ ops[o].pc = "failed" /\ ops[o].sent = <<"checkSchema", "registerSchema">>
    /\ \E r \in RequestsOf(o) : requests[r].kind = "registerSchema" /\ Fatal(r)
    /\ ops[q].pc = "failed" /\ ops[q].sent = <<"checkSchema">>
    /\ \E r \in RequestsOf(q) : Fatal(r)

(***************************************************************************)
(* Termination of the helper's operations                                  *)
(***************************************************************************)
Awaiting(o) == ops[o].pc \in {"check", "register", "latest", "byId"}

\* C30: when every request is answered in the end, every encodeForSubject,
\* encodeForId and decode call resolves or rejects in the end (the calls
\* being finitely many and a settled call staying settled: from some point
\* on every call made has settled); a call does not settle while a request
\* of its own is unanswered, and does not move while the promise it awaits
\* stays pending.
C30_SettlesWhenAnswered ==
  /\ <>[](\A o \in DOMAIN ops : Finished(o))
  /\ [](\A o \in DOMAIN ops : InFlight(o) # {} => Awaiting(o))
  /\ [][\A o \in DOMAIN ops :
          (/\ Awaiting(o)
           /\ promises[ops[o].wait].st = "pending"
           /\ promises'[ops[o].wait].st = "pending") => ops'[o] = ops[o]]_vars

C30_Witness ==
  \E o \in DOMAIN ops, q \in DOMAIN ops :
    /\ ops[o].pc = "done" /\ RequestsOf(o) # {}
    /\ Awaiting(q) /\ InFlight(q) # {}

(***************************************************************************)
(* Concurrent registration                                                 *)
(***************************************************************************)
\* o1 and o2 are different encodeForSubject calls for the same subject,
\* schema type and schema that both requested a registration
BothRegister(o1, o2) ==
  /\ o1 # o2
  /\ ops[o1].subject = ops[o2].subject
  /\ ops[o1].tag = ops[o2].tag
  /\ ops[o1].schema = ops[o2].schema
  /\ Registers(o1) /\ Registers(o2)

\* the promise of the registerSchema call of o (o has made one)
RegisterOf(o) ==
  promises[requests[CHOOSE r \in RegisterRequests : requests[r].op = o].promise]

\* C31: two concurrent encodeForSubject calls for the same unregistered
\* subject and schema may both get 'not found' and both request a
\* registration, each with a request of its own.  When the registry accepts
\* both, both resolve with the same identifier; when it rejects one, that
\* call rejects with the rejection and the other call still resolves.
C31_ConcurrentRegistration ==
  \A o1 \in WithSchema, o2 \in WithSchema :
    BothRegister(o1, o2) =>
      /\ IsNotFound(CheckOf(o1).val) /\ IsNotFound(CheckOf(o2).val)
      /\ ops[o1].wait # ops[o2].wait
      /\ (RegisterOf(o1).st = "fulfilled" /\ RegisterOf(o2).st = "fulfilled") =>
           RegisterOf(o1).val.id = RegisterOf(o2).val.id
      /\ (ops[o1].pc = "done" /\ ops[o2].pc = "done") =>
           /\ ops[o1].resolved.id = ops[o2].resolved.id
           /\ ops[o1].out = ops[o2].out
      /\ (RegisterOf(o1).st = "rejected" /\ ops[o1].pc # "register") =>
           /\ ops[o1].pc = "failed" /\ ops[o1].out = RegisterOf(o1).val
      /\ (RegisterOf(o2).st = "fulfilled" /\ ops[o2].pc # "register") =>
           ops[o2].pc = "done"

C31_Witness ==
  \E o1 \in WithSchema, o2 \in WithSchema :
    /\ BothRegister(o1, o2)
    /\ ops[o1].checked = ops[o2].checked
    /\ ops[o1].pc = "failed" /\ RegisterOf(o1).st = "rejected"
    /\ ops[o2].pc = "done" /\ RegisterOf(o2).st = "fulfilled"

(***************************************************************************)
(* A handler that fails after the registration                             *)
(***************************************************************************)
\* o is an encodeForSubject call that registered its schema and then
\* rejected with the error of its handler
FailedAfterRegistering(o) ==
  /\ Registers(o) /\ RegisterOf(o).st = "fulfilled"
  /\ ops[o].pc = "failed" /\ ops[o].out = HandlerError

\* q is an encodeForSubject call made after o had settled, with the
\* subject, schema type and schema of o
Follows(q, o) ==
  /\ o \in ops[q].before
  /\ ops[q].subject = ops[o].subject
  /\ ops[q].tag = ops[o].tag
  /\ ops[q].schema = ops[o].schema

\* C32: when the handler fails after encodeForSubject registered the schema,
\* the call rejects with the handler's error, the registration stays in the
\* registry and no further request is made; a following encodeForSubject
\* with the same subject and schema asks checkSchema, is answered with the
\* registered schema and does not register again.
C32_HandlerFailsAfterRegistration ==
  /\ [](\A o \in WithSchema :
         FailedAfterRegistering(o) =>
           /\ Matching(ops[o].subject, ops[o].schema.s, ops[o].tag) # {}
           /\ ops[o].sent[Len(ops[o].sent)] = "registerSchema"
           /\ \A r \in RequestsOf(o) :
                requests[r].kind \in {"checkSchema", "registerSchema"}
           /\ \A q \in WithSchema :
                Follows(q, o) =>
                  /\ ~Registers(q)
                  /\ ops[q].checked # 0
                  /\ CheckOf(q).st = "fulfilled" =>
                       CheckOf(q).val.id = RegisterOf(o).val.id
                  /\ CheckOf(q).st = "rejected" => ~IsNotFound(CheckOf(q).val))
  /\ [][\A o \in WithSchema :
         (/\ ops[o].pc = "register" /\ ops'[o].pc # "register"
          /\ promises[ops[o].wait].st = "fulfilled"
          /\ schemaHandlers[ops[o].tag] = "throwing") =>
           /\ ops'[o].pc = "failed" /\ ops'[o].out = HandlerError
           /\ registry' = registry /\ requests' = requests]_vars

C32_Witness ==
  \E o \in WithSchema, q \in WithSchema :
    /\ FailedAfterRegistering(o) /\ Follows(q, o)
    /\ ops[q].pc = "done" /\ ops[q].sent = <<"checkSchema">>
    /\ CheckOf(q).val.id = RegisterOf(o).val.id

(***************************************************************************)
(* One factory call per operation                                          *)
(***************************************************************************)
\* C33: every successful encodeForSubject, encodeForId or decode of a framed
\* message has invoked the registered factory exactly once, with the
\* serialized schema the call resolved, also when the schema came from the
\* cache (the call sent no request).
C33_FactoryOncePerCall ==
  \A o \in EncodeOps \cup FramedDecodes :
    ops[o].pc = "done" =>
      /\ Len(ops[o].factory) = 1
      /\ ops[o].factory[1].schema = ops[o].resolved.schema

(***************************************************************************)
(* Results that are not stored                                             *)
(***************************************************************************)
\* the latest call with key k invoked the wrapped function and got undefined
ReturnedUndefined(k) ==
  /\ \E c \in DOMAIN calls : calls[c].key = k
  /\ LET last == Max({ c \in DOMAIN calls : calls[c].key = k })
     IN calls[last].invoked /\ calls[last].ret = Undefined

\* C34: a call in which the wrapped function returns undefined leaves the
\* cache as it was, undefined is never an entry of the cache, and the next
\* call with the same key invokes the wrapped function again.
C34_UndefinedNotCached ==
  /\ [](\A k \in DOMAIN cache : cache[k] # Undefined)
  /\ [][\A c \in (DOMAIN calls') \ (DOMAIN calls) :
         /\ (calls'[c].invoked /\ calls'[c].ret = Undefined) => cache' = cache
         /\ ReturnedUndefined(calls'[c].key) => calls'[c].invoked]_vars

C34_Witness ==
  \E c, d \in DOMAIN calls :
    /\ c < d /\ d = Len(calls)
    /\ calls[c].key = calls[d].key
    /\ calls[c].invoked /\ calls[c].ret = Undefined
    /\ \A e \in DOMAIN calls : c < e /\ e < d => calls[e].key # calls[c].key
    /\ calls[d].invoked /\ calls[d].ret = Undefined
    /\ cache # << >>

\* C35: undefined is the only result that is not memoized: after a
\* synchronous wrapped function returned any other value (0 included) for a
\* key, the next call with that key, with no clear in between, returns the
\* stored value without invoking the function.
C35_OnlyUndefinedNotMemoized ==
  \A c \in { d \in DOMAIN calls : \E f \in Fns : f.name = calls[d].fn /\ ~f.async } :
    (calls[c].prior # None /\ calls[c].prior # Undefined) =>
      /\ ~calls[c].invoked
      /\ calls[c].ret = calls[c].prior

(***************************************************************************)
(* clear                                                                   *)
(***************************************************************************)
\* a step of the user's clear: the cache changes while no call is made and
\* no promise settles
ClearStep ==
  /\ cache' # cache
  /\ calls' = calls /\ invs' = invs
  /\ \A p \in DOMAIN promises : promises'[p].st = promises[p].st

\* the step was clear(k): the unsettled promises it cut off are those of k
ClearedKey(k) ==
  /\ ClearStep
  /\ \A p \in DOMAIN promises :
       promises'[p].cut = (promises[p].cut \/ (promises[p].key = k /\ ~Settled(p)))
  /\ DOMAIN lastOk' = (DOMAIN lastOk) \ {k}

\* the step was clear(): every unsettled promise is cut off
ClearedAll ==
  /\ ClearStep
  /\ \A p \in DOMAIN promises : promises'[p].cut = (promises[p].cut \/ ~Settled(p))
  /\ lastOk' = << >>

\* C36: clear(K) for a stored key K removes the entry of K and leaves every
\* other entry as it was, so the next call misses for K and hits or misses
\* for any other key as before; clear() removes every entry, so the next
\* call misses for every key.
C36_ClearRemovesExactly ==
  [][ClearStep =>
       \/ \E k \in DOMAIN cache :
            /\ ClearedKey(k)
            /\ DOMAIN cache' = (DOMAIN cache) \ {k}
            /\ \A j \in DOMAIN cache' : cache'[j] = cache[j]
            /\ ~cacheHit(cache', k)
            /\ \A j \in DOMAIN cache' : cacheHit(cache', j) = cacheHit(cache, j)
       \/ /\ ClearedAll
          /\ cache' = << >>
          /\ \A j \in DOMAIN cache : ~cacheHit(cache', j)]_vars

C36_Witness ==
  \E p, q \in DOMAIN promises :
    /\ promises[p].cut /\ promises[p].key \notin DOMAIN cache
    /\ ~promises[q].cut /\ promises[q].key # promises[p].key
    /\ cacheGet(cache, promises[q].key) = PromiseRef(q)

C38_KeyedByFunctionIdentity ==
  (applied.fn = "cachedPair" /\ applied.out # None) =>
    /\ applied.out.key1 # applied.out.key2
    /\ ~applied.out.hit

\* C40: for one wrapped function, two calls whose key arguments differ (the
\* number 1 and the string "1"; ("a__b", "c") and ("a", "b__c")) have
\* different cache keys, so the second is not answered with the entry of the
\* first.
C40_KeyInjective ==
  (applied.fn = "cachedKeys" /\ applied.out # None) =>
    (~SameMaskedArgs(applied.mask, applied.first, applied.second) =>
       /\ applied.out.key1 # applied.out.key2
       /\ ~applied.out.hit)

(***************************************************************************)
(* Eviction after a clear                                                  *)
(***************************************************************************)
\* C39: the eviction after a failed asynchronous call removes only the
\* entry that call stored: an entry another call stored under the same key
\* (after a clear, while the first call was pending) stays in the cache
\* when the catch handler of the failed call runs.
C39_EvictsOwnEntryOnly ==
  [][\A p \in DOMAIN promises :
       (promises[p].st = "rejecting" /\ promises'[p].st = "rejected") =>
         \A k \in DOMAIN cache :
           cache[k] # PromiseRef(p) =>
             k \in DOMAIN cache' /\ cache'[k] = cache[k]]_vars

====
